---- MODULE Spec2Model ----
(***************************************************************************)
(* TinySAE, src/tiny_sae.py: the training loop train_sae, the forward      *)
(* hook that taps one layer of the host model, and the loss of one         *)
(* training step.                                                          *)
(*                                                                         *)
(* train_sae is one sequential procedure; pc is its position.  Tensors     *)
(* are sequences: a token batch is a sequence of rows of token ids, an     *)
(* activation tensor a sequence of rows, a row a sequence of positions, a  *)
(* position a sequence of DIn integers.  The arithmetic of Adam is not     *)
(* part of the repository: the codec parameters are named by the number    *)
(* of optimizer steps applied to them (ver) and by whether the decoder     *)
(* rows have been renormalised since (unit).                               *)
(***************************************************************************)
EXTENDS Integers, Sequences, FiniteSets, TLC

\* ---------------------------------------------------------------- bounds
MaxRecords == 9
NumLayers == 2
SeqLen == 2
MaxBatchSize == 2
MaxMask == 1
DIn == 1

OptimizeEverySet == {2, 3, 5}
SaveEverySet == {4, 8}
WandbNames == {"runA", "runB"}

\* Python None; every tensor has at least one row, so none is the empty
\* sequence
None == <<>>
NoExc == "none"
StopIteration == "StopIteration"
OtherError == "Error"

\* ------------------------------------------------------- tensor helpers
RECURSIVE SumSeq(_)
SumSeq(s) == IF s = <<>> THEN 0 ELSE Head(s) + SumSeq(Tail(s))

\* faulty variant: the batch dimension only
Numel_Rows(t) == Len(t)

\* torch.Tensor.numel() of a stacked token batch (rows of token ids)
Numel(t) == SumSeq([b \in 1..Len(t) |-> Len(t[b])])

\* faulty variant: the slice left out
MaskFirst_None(t, m) == t

\* t[:, m:] : drop the first m positions of every row
MaskFirst(t, m) ==
    [b \in 1..Len(t) |-> SubSeq(t[b], m + 1, Len(t[b]))]

\* ------------------------------------------------------------ host model
\* The token source: record idx carries SeqLen token ids that differ from
\* position to position and from record to record.
InputIds(idx) == [s \in 1..SeqLen |-> (idx + 2 * s) % 5]

\* torch.stack(batch): rows of token ids
Stack(batch) == [b \in 1..Len(batch) |-> batch[b].input_ids]

\* Stand-in for the frozen host model: an embedding and NumLayers layers,
\* layer i adding i to every activation element.
Embed(tokens) ==
    [b \in 1..Len(tokens) |->
        [s \in 1..Len(tokens[b]) |-> [d \in 1..DIn |-> tokens[b][s]]]]

LayerFn(i, x) ==
    [b \in 1..Len(x) |->
        [s \in 1..Len(x[b]) |-> [d \in 1..DIn |-> x[b][s][d] + i]]]

\* What a forward hook is handed: a tuple (first element the tensor) or the
\* bare tensor.
Delivered(isTuple, x) ==
    [tuple |-> isTuple, val |-> IF isTuple THEN <<x, None>> ELSE x]

\* ---------------------------------------------------------------- hook
\* if isinstance(v, tuple): v = v[0]
HookUnwrap(v) == IF v.tuple THEN v.val[1] ELSE v.val

\* faulty variant: a hook that returns instead of raising
HookRaises_Never == NoExc

\* raise StopIteration("Stop here")
HookRaises == StopIteration

\* faulty variant: an except clause that does not match the signal
Caught_Nothing(e) == FALSE

\* except StopIteration: pass
Caught(e) == e = StopIteration

\* ------------------------------------------------------------------ codec
\* Integer vectors stand for the tensors' last axis.
Dot(u, v) == SumSeq([d \in 1..Len(u) |-> u[d] * v[d]])
VecAdd(u, v) == [d \in 1..Len(u) |-> u[d] + v[d]]
VecSub(u, v) == [d \in 1..Len(u) |-> u[d] - v[d]]
VecScale(a, u) == [d \in 1..Len(u) |-> a * u[d]]

RECURSIVE VecSum(_, _)
VecSum(vs, zero) ==
    IF vs = <<>> THEN zero ELSE VecAdd(Head(vs), VecSum(Tail(vs), zero))

\* faulty variant: the decoder bias is not subtracted
PreActs_NoBias(c, x) ==
    [j \in 1..Len(c.W_enc) |-> Dot(c.W_enc[j], x) + c.b_enc[j]]

\* self.encoder(x - self.b_dec) for one position
PreActs(c, x) ==
    [j \in 1..Len(c.W_enc) |-> Dot(c.W_enc[j], VecSub(x, c.b_dec)) + c.b_enc[j]]

\* torch.topk(k) of one position: the indices of the k largest values,
\* largest first.  Which of several equal values comes first is not
\* specified by torch: tie ranks the indices, and among equal values the
\* index of the lowest rank wins.
RECURSIVE TopKFrom(_, _, _, _)
TopKFrom(pre, cand, k, tie) ==
    IF k = 0 \/ cand = {} THEN <<>>
    ELSE LET best == CHOOSE j \in cand :
                        \A i \in cand :
                           \/ pre[i] < pre[j]
                           \/ pre[i] = pre[j] /\ tie[j] <= tie[i]
         IN <<best>> \o TopKFrom(pre, cand \ {best}, k - 1, tie)

\* every way to rank n indices
TieOrders(n) == {f \in [1..n -> 1..n] : \A i, j \in 1..n : f[i] = f[j] => i = j}

TopK(pre, k, tie) == TopKFrom(pre, DOMAIN pre, k, tie)

\* faulty variant: negative values are returned as zero
TopKOf_Relu(pre, k, tie) ==
    LET idx == TopK(pre, k, tie)
    IN [values |-> [i \in 1..Len(idx) |->
                       IF pre[idx[i]] < 0 THEN 0 ELSE pre[idx[i]]],
        indices |-> idx]

\* forward.topk(k, dim=-1) of one position: values and indices
TopKOf(pre, k, tie) ==
    LET idx == TopK(pre, k, tie)
    IN [values |-> [i \in 1..Len(idx) |-> pre[idx[i]]], indices |-> idx]

\* Sae.encode: (top_acts, top_indices), both of shape (B, S, k)
Encode(c, x, tie) ==
    LET top == [b \in 1..Len(x) |-> [s \in 1..Len(x[b]) |->
                    \* (the singleton binds the pre-activations once)
                    CHOOSE r \in {TopKOf(pre, c.cfg.k, tie) :
                                     pre \in {PreActs(c, x[b][s])}} : TRUE]]
    IN [top_acts |-> [b \in 1..Len(x) |-> [s \in 1..Len(x[b]) |->
                        top[b][s].values]],
        top_indices |-> [b \in 1..Len(x) |-> [s \in 1..Len(x[b]) |->
                        top[b][s].indices]]]

\* Tensor.flatten(end_dim=1): the rows one after the other
RECURSIVE Flatten(_)
Flatten(t) == IF t = <<>> THEN <<>> ELSE Head(t) \o Flatten(Tail(t))

\* nn.functional.embedding_bag(indices, W, per_sample_weights, mode="sum")
EmbeddingBag(indices, W, weights, zero) ==
    [t \in 1..Len(indices) |->
        VecSum([i \in 1..Len(indices[t]) |->
                    VecScale(weights[t][i], W[indices[t][i]])], zero)]

\* faulty variant: the flat axis is split as (n b), not (b n)
Rearrange_Transposed(res, b) ==
    LET n == Len(res) \div b
    IN [r \in 1..b |-> [s \in 1..n |-> res[(s - 1) * b + r]]]

\* einops.rearrange(res, "(b n) d -> b n d", b=batch_size)
Rearrange(res, b) ==
    LET n == Len(res) \div b
    IN [r \in 1..b |-> [s \in 1..n |-> res[(r - 1) * n + s]]]

\* Sae.decode
Decode(c, top_acts, top_indices) ==
    LET batch_size == Len(top_indices)
        zero == [d \in 1..Len(c.b_dec) |-> 0]
        res == EmbeddingBag(Flatten(top_indices), c.W_dec, Flatten(top_acts),
                            zero)
        shaped == Rearrange(res, batch_size)
    IN [b \in 1..Len(shaped) |-> [s \in 1..Len(shaped[b]) |->
            VecAdd(shaped[b][s], c.b_dec)]]

\* Sae.forward
Forward(c, x, tie) ==
    LET e == Encode(c, x, tie) IN Decode(c, e.top_acts, e.top_indices)

\* lines 182-184: (error**2).sum() over the mean-centred target's squares.
\* With n positions per row, sum((x - mean)^2) = (n*sum(x^2) - sum(x)^2)/n,
\* so the loss is the fraction (n * num) / den of two integers; 0/0 is the
\* nan of an empty or constant target with no error.
Fvu(predicted, target) ==
    LET n == IF target = <<>> THEN 0 ELSE Len(target[1])
        dims == IF n = 0 THEN 0 ELSE Len(target[1][1])
        sq(b, s) == LET e == VecSub(predicted[b][s], target[b][s])
                    IN Dot(e, e)
        num == SumSeq([b \in 1..Len(target) |->
                   SumSeq([s \in 1..n |-> sq(b, s)])])
        col(b, d) == [s \in 1..n |-> target[b][s][d]]
        centred(b, d) == n * Dot(col(b, d), col(b, d))
                           - SumSeq(col(b, d)) * SumSeq(col(b, d))
        den == SumSeq([b \in 1..Len(target) |->
                   SumSeq([d \in 1..dims |-> centred(b, d)])])
    IN [num |-> n * num, den |-> den]

\* ------------------------------------------------------- training step
\* faulty variant: the transcode test inverted
SaeInput_Swapped(gi, go, m, transcode) ==
    IF transcode THEN MaskFirst(go, m) ELSE MaskFirst(gi, m)

\* sae_input after lines 171-179
SaeInput(gi, go, m, transcode) ==
    IF ~transcode THEN MaskFirst(go, m) ELSE MaskFirst(gi, m)

\* sae_output, lines 174-176
SaeOutput(go, m) == MaskFirst(go, m)

\* lines 171-184 for a codec with known weights
TrainStep(c, gi, go, m, transcode, tie) ==
    LET si == SaeInput(gi, go, m, transcode)
        so == SaeOutput(go, m)
        predicted == Forward(c, si, tie)
    IN [sae_input |-> si, sae_output |-> so, predicted |-> predicted,
        loss |-> Fvu(predicted, so)]

\* faulty variant: > in place of >=
ShouldStep_Strict(seen, every) == seen > every

\* if tokens_seen_since_last_step >= train_cfg.optimize_every_n_tokens
ShouldStep(seen, every) == seen >= every

\* faulty variant: > in place of >=
ShouldSave_Strict(seen, every) == seen > every

\* if tokens_seen_since_last_save >= train_cfg.save_every_n_tokens
ShouldSave(seen, every) == seen >= every

\* f"sae-ckpts/{train_cfg.wandb_name}"
CkptPath(name) == <<"sae-ckpts", name>>

\* faulty variant: the gradients survive the step
ZeroedGrads_Kept(g) == g

\* optimizer.zero_grad()
ZeroedGrads(g) == <<>>

\* faulty variant: the pending gradients are applied to what is written
SavedParams_Applied(s) ==
    IF s.grads = <<>> THEN s.params
    ELSE [ver |-> s.params.ver + 1, unit |-> FALSE]

\* save_model(self, ...): the codec's parameters as they are
SavedParams(s) == s.params

\* faulty variant: records left in the buffer are processed at the end
AfterExhaustion_Flush(b) == IF b = <<>> THEN "finally" ELSE "body"

\* the for statement of line 155 on an exhausted source: the loop ends and
\* control reaches the finally block, whatever the buffer holds
AfterExhaustion(b) == "finally"

OptimizerStepParams(p) == [ver |-> p.ver + 1, unit |-> FALSE]

\* faulty variant: the renormalisation left out
SetDecoderNormToUnitNorm_Skip(p) == p

\* Sae.set_decoder_norm_to_unit_norm
SetDecoderNormToUnitNorm(p) == [p EXCEPT !.unit = TRUE]

\* faulty variant: a metric keyed by a constant
WandbLog_KeyZero(log, value, step) == Append(log, [step |-> 0, fvu |-> value])

\* wandb.log({"fvu": loss.item()}, step=step)
WandbLog(log, value, step) == Append(log, [step |-> step, fvu |-> value])

\* ----------------------------------------------------------------- state
VARIABLES
    pc,           \* position in train_sae
    outcome,      \* "running", "returned" or "raised"
    use_wandb,
    train_cfg,    \* TrainConfig
    sae,          \* [cfg, params, grads]
    wandb,        \* [inits, finishes, log]
    handle,       \* [registered, attached, removes]
    global_inputs,
    global_outputs,
    tokens_seen_since_last_step,
    tokens_seen_since_last_save,
    step,         \* enumerate index of the record in hand
    tokens,       \* the record in hand
    batch,        \* the batch buffer (records, each with its stream index)
    exc,          \* exception in flight
    fwd,          \* the host forward pass in progress
    sae_input,
    sae_output,
    loss,
    ckpts,        \* checkpoints written, in order
    hist,         \* history: what happened on which processed batch
    lossrun,      \* SpecLoss: two training steps side by side
    diskrun,      \* SpecDisk: a codec, a checkpoint directory, a load
    codecrun      \* SpecCodec: a codec, an input, encode and decode

vars == <<pc, outcome, use_wandb, train_cfg, sae, wandb, handle, global_inputs,
          global_outputs, tokens_seen_since_last_step,
          tokens_seen_since_last_save, step, tokens, batch, exc, fwd,
          sae_input, sae_output, loss, ckpts, hist, lossrun, diskrun,
          codecrun>>

\* what no action of train_sae changes
cfgVars == <<use_wandb, train_cfg, lossrun, diskrun, codecrun>>

\* fwd: next layer to run, the activation so far, the layers that ran, and
\* whether and with what the hook was called
NoFwd == [next |-> 0, x |-> None, ran |-> <<>>, hooked |-> FALSE,
          din |-> Delivered(FALSE, None), dout |-> Delivered(FALSE, None)]

Init ==
    /\ pc = "wandb_init"
    /\ outcome = "running"
    /\ use_wandb \in BOOLEAN
    /\ train_cfg \in [wandb_name : WandbNames,
                      mask_first_n_tokens : 0..MaxMask,
                      model_batch_size : 1..MaxBatchSize,
                      save_every_n_tokens : SaveEverySet,
                      optimize_every_n_tokens : OptimizeEverySet]
       \* hookpoint 0 stands for a path that names no submodule
    /\ sae \in [cfg : [hookpoint : 0..NumLayers, transcode : BOOLEAN],
                params : {[ver |-> 0, unit |-> TRUE]},
                grads : {<<>>}]
    /\ wandb = [inits |-> 0, finishes |-> 0, log |-> <<>>]
    /\ handle = [registered |-> FALSE, attached |-> FALSE, removes |-> 0]
    /\ global_inputs = None
    /\ global_outputs = None
    /\ tokens_seen_since_last_step = 0
    /\ tokens_seen_since_last_save = 0
    /\ step = -1
    /\ tokens = None
    /\ batch = <<>>
    /\ exc = NoExc
    /\ fwd = NoFwd
    /\ sae_input = None
    /\ sae_output = None
    /\ loss = None
    /\ ckpts = <<>>
    /\ hist = [processed |-> <<>>, numels |-> <<>>, steps |-> {}, saves |-> {},
               logged |-> {}, applied |-> <<>>, cleared |-> {}]
    /\ lossrun = <<>>
    /\ diskrun = <<>>
    /\ codecrun = <<>>

\* --------------------------------------------------------------- actions
\* lines 119-125
WandbInit ==
    /\ pc = "wandb_init"
    /\ wandb' = IF use_wandb THEN [wandb EXCEPT !.inits = @ + 1] ELSE wandb
    /\ pc' = "get_submodule"
    /\ UNCHANGED <<outcome, cfgVars, sae, handle, global_inputs, global_outputs,
                   tokens_seen_since_last_step, tokens_seen_since_last_save,
                   step, tokens, batch, exc, fwd, sae_input, sae_output, loss,
                   ckpts, hist>>

\* line 127: model.get_submodule raises when the path names no submodule;
\* the call is outside the try block, so the exception leaves train_sae.
GetSubmodule ==
    /\ pc = "get_submodule"
    /\ IF sae.cfg.hookpoint \in 1..NumLayers
         THEN pc' = "optimizer" /\ UNCHANGED <<outcome, exc>>
         ELSE pc' = "done" /\ outcome' = "raised" /\ exc' = OtherError
    /\ UNCHANGED <<cfgVars, sae, wandb, handle, global_inputs, global_outputs,
                   tokens_seen_since_last_step, tokens_seen_since_last_save,
                   step, tokens, batch, fwd, sae_input, sae_output, loss,
                   ckpts, hist>>

\* lines 130-134
MakeOptimizer ==
    /\ pc = "optimizer"
    /\ global_inputs' = None
    /\ global_outputs' = None
    /\ pc' = "register_hook"
    /\ UNCHANGED <<outcome, cfgVars, sae, wandb, handle,
                   tokens_seen_since_last_step, tokens_seen_since_last_save,
                   step, tokens, batch, exc, fwd, sae_input, sae_output, loss,
                   ckpts, hist>>

\* line 148, also outside the try block
RegisterHook ==
    /\ pc = "register_hook"
    /\ \E ok \in BOOLEAN :
         IF ok
           THEN /\ handle' = [handle EXCEPT !.registered = TRUE,
                                            !.attached = TRUE]
                /\ pc' = "try"
                /\ UNCHANGED <<outcome, exc>>
           ELSE /\ pc' = "done" /\ outcome' = "raised" /\ exc' = OtherError
                /\ UNCHANGED handle
    /\ UNCHANGED <<cfgVars, sae, wandb, global_inputs, global_outputs,
                   tokens_seen_since_last_step, tokens_seen_since_last_save,
                   step, tokens, batch, fwd, sae_input, sae_output, loss,
                   ckpts, hist>>

\* lines 150-154
EnterTry ==
    /\ pc = "try"
    /\ tokens_seen_since_last_step' = 0
    /\ tokens_seen_since_last_save' = 0
    /\ batch' = <<>>
    /\ pc' = "for"
    /\ UNCHANGED <<outcome, cfgVars, sae, wandb, handle, global_inputs,
                   global_outputs, step, tokens, exc, fwd, sae_input,
                   sae_output, loss, ckpts, hist>>

\* line 155: the token source yields its next record, or is exhausted
ForNext ==
    /\ pc = "for"
    /\ \/ /\ step + 1 < MaxRecords
          /\ tokens' = [idx |-> step + 1, input_ids |-> InputIds(step + 1)]
          /\ step' = step + 1
          /\ pc' = "body"
       \/ /\ pc' = AfterExhaustion(batch)
          /\ UNCHANGED <<step, tokens>>
    /\ UNCHANGED <<outcome, cfgVars, sae, wandb, handle, global_inputs,
                   global_outputs, tokens_seen_since_last_step,
                   tokens_seen_since_last_save, batch, exc, fwd, sae_input,
                   sae_output, loss, ckpts, hist>>

\* lines 157-163: append and continue, or stack the buffer and count it.
\* torch.stack / .to(device) can fail (device placement).
AppendOrStack ==
    /\ pc = "body"
    /\ IF Len(batch) < train_cfg.model_batch_size
         THEN /\ batch' = Append(batch, tokens)
              /\ pc' = "for"
              /\ UNCHANGED <<exc, fwd, hist, tokens_seen_since_last_step,
                             tokens_seen_since_last_save>>
         ELSE \E ok \in BOOLEAN :
              IF ok
                THEN /\ tokens_seen_since_last_step' =
                            tokens_seen_since_last_step + Numel(Stack(batch))
                     /\ tokens_seen_since_last_save' =
                            tokens_seen_since_last_save + Numel(Stack(batch))
                     /\ hist' = [hist EXCEPT
                            !.processed = Append(@, [b \in 1..Len(batch) |->
                                                        batch[b].idx]),
                            !.numels = Append(@, Numel(Stack(batch)))]
                     /\ fwd' = [NoFwd EXCEPT !.next = 1,
                                             !.x = Embed(Stack(batch))]
                     /\ pc' = "forward"
                     /\ UNCHANGED <<exc, batch>>
                ELSE /\ exc' = OtherError
                     /\ pc' = "finally"
                     /\ UNCHANGED <<fwd, hist, batch,
                                    tokens_seen_since_last_step,
                                    tokens_seen_since_last_save>>
    /\ UNCHANGED <<outcome, cfgVars, sae, wandb, handle, global_inputs,
                   global_outputs, step, tokens, sae_input, sae_output, loss,
                   ckpts>>

\* lines 165-167 and the hook, lines 136-146: the host model runs its next
\* layer; the hook fires when the hooked layer has produced its output.
ModelForwardLayer ==
    /\ pc = "forward"
    /\ \E ok \in BOOLEAN, inTuple \in BOOLEAN, outTuple \in BOOLEAN :
         LET i == fwd.next
             out == LayerFn(i, fwd.x)
             din == Delivered(inTuple, fwd.x)
             dout == Delivered(outTuple, out)
             hooked == handle.attached /\ i = sae.cfg.hookpoint
         IN IF ~ok
              THEN /\ ~inTuple /\ ~outTuple
                   /\ exc' = OtherError
                   /\ pc' = "except"
                   /\ UNCHANGED <<fwd, global_inputs, global_outputs>>
              ELSE IF hooked
                THEN /\ fwd' = [fwd EXCEPT !.next = i + 1, !.x = out,
                                           !.ran = Append(@, i),
                                           !.hooked = TRUE,
                                           !.din = din, !.dout = dout]
                     /\ global_inputs' = HookUnwrap(din)
                     /\ global_outputs' = HookUnwrap(dout)
                     /\ exc' = HookRaises
                     /\ pc' = IF HookRaises = NoExc /\ i < NumLayers
                                THEN "forward" ELSE "except"
                ELSE /\ ~inTuple /\ ~outTuple
                     /\ fwd' = [fwd EXCEPT !.next = i + 1, !.x = out,
                                           !.ran = Append(@, i)]
                     /\ pc' = IF i < NumLayers THEN "forward" ELSE "except"
                     /\ UNCHANGED <<exc, global_inputs, global_outputs>>
    /\ UNCHANGED <<outcome, cfgVars, sae, wandb, handle,
                   tokens_seen_since_last_step, tokens_seen_since_last_save,
                   step, tokens, batch, sae_input, sae_output, loss, ckpts,
                   hist>>

\* lines 166-169: the call site of model(batch)
ExceptStopIteration ==
    /\ pc = "except"
    /\ IF exc = NoExc \/ Caught(exc)
         THEN exc' = NoExc /\ pc' = "loss"
         ELSE pc' = "finally" /\ UNCHANGED exc
    /\ UNCHANGED <<outcome, cfgVars, sae, wandb, handle, global_inputs,
                   global_outputs, tokens_seen_since_last_step,
                   tokens_seen_since_last_save, step, tokens, batch, fwd,
                   sae_input, sae_output, loss, ckpts, hist>>

\* lines 171-185: slice, choose the codec input, loss, backward.  The loss
\* is named by the batch, the parameters and the tensors it was computed
\* from; backward adds this batch's gradient to the accumulated ones.
ComputeLoss ==
    /\ pc = "loss"
    /\ \E ok \in BOOLEAN :
         IF ok /\ global_inputs # None /\ global_outputs # None
           THEN LET m == train_cfg.mask_first_n_tokens
                    si == SaeInput(global_inputs, global_outputs, m,
                                   sae.cfg.transcode)
                    so == SaeOutput(global_outputs, m)
                    n == Len(hist.processed)
                IN /\ sae_input' = si
                   /\ sae_output' = so
                   /\ loss' = [batch |-> n, ver |-> sae.params.ver,
                               input |-> si, target |-> so]
                   /\ sae' = [sae EXCEPT !.grads = Append(@, n)]
                   /\ pc' = "check_step"
                   /\ UNCHANGED exc
           ELSE /\ exc' = OtherError
                /\ pc' = "finally"
                /\ UNCHANGED <<sae_input, sae_output, loss, sae>>
    /\ UNCHANGED <<outcome, cfgVars, wandb, handle, global_inputs,
                   global_outputs, tokens_seen_since_last_step,
                   tokens_seen_since_last_save, step, tokens, batch, fwd,
                   ckpts, hist>>

\* line 187
CheckStep ==
    /\ pc = "check_step"
    /\ pc' = IF ShouldStep(tokens_seen_since_last_step,
                           train_cfg.optimize_every_n_tokens)
               THEN "optimizer_step" ELSE "check_save"
    /\ UNCHANGED <<outcome, cfgVars, sae, wandb, handle, global_inputs,
                   global_outputs, tokens_seen_since_last_step,
                   tokens_seen_since_last_save, step, tokens, batch, exc, fwd,
                   sae_input, sae_output, loss, ckpts, hist>>

\* line 188
OptimizerStep ==
    /\ pc = "optimizer_step"
    /\ sae' = [sae EXCEPT !.params = OptimizerStepParams(@)]
    /\ hist' = [hist EXCEPT
          !.steps = @ \cup {Len(hist.processed)},
          !.applied = Append(@, [at |-> Len(hist.processed),
                                 grads |-> sae.grads])]
    /\ pc' = "zero_grad"
    /\ UNCHANGED <<outcome, cfgVars, wandb, handle, global_inputs,
                   global_outputs, tokens_seen_since_last_step,
                   tokens_seen_since_last_save, step, tokens, batch, exc, fwd,
                   sae_input, sae_output, loss, ckpts>>

\* line 189
ZeroGrad ==
    /\ pc = "zero_grad"
    /\ sae' = [sae EXCEPT !.grads = ZeroedGrads(@)]
    /\ hist' = [hist EXCEPT !.cleared = @ \cup {Len(hist.processed)}]
    /\ pc' = "renorm"
    /\ UNCHANGED <<outcome, cfgVars, wandb, handle, global_inputs,
                   global_outputs, tokens_seen_since_last_step,
                   tokens_seen_since_last_save, step, tokens, batch, exc, fwd,
                   sae_input, sae_output, loss, ckpts>>

\* line 190
Renorm ==
    /\ pc = "renorm"
    /\ sae' = [sae EXCEPT !.params = SetDecoderNormToUnitNorm(@)]
    /\ pc' = "reset_log"
    /\ UNCHANGED <<outcome, cfgVars, wandb, handle, global_inputs,
                   global_outputs, tokens_seen_since_last_step,
                   tokens_seen_since_last_save, step, tokens, batch, exc, fwd,
                   sae_input, sae_output, loss, ckpts, hist>>

\* lines 191-193
ResetAndLog ==
    /\ pc = "reset_log"
    /\ tokens_seen_since_last_step' = 0
    /\ IF use_wandb
         THEN /\ wandb' = [wandb EXCEPT !.log = WandbLog(@, loss, step)]
              /\ hist' = [hist EXCEPT !.logged = @ \cup {Len(hist.processed)}]
         ELSE UNCHANGED <<wandb, hist>>
    /\ pc' = "check_save"
    /\ UNCHANGED <<outcome, cfgVars, sae, handle, global_inputs,
                   global_outputs, tokens_seen_since_last_save, step, tokens,
                   batch, exc, fwd, sae_input, sae_output, loss, ckpts>>

\* lines 195-197
CheckSave ==
    /\ pc = "check_save"
    /\ IF ShouldSave(tokens_seen_since_last_save,
                     train_cfg.save_every_n_tokens)
         THEN /\ ckpts' = Append(ckpts,
                    [path |-> CkptPath(train_cfg.wandb_name),
                     params |-> SavedParams(sae),
                     batch |-> Len(hist.processed)])
              /\ hist' = [hist EXCEPT !.saves = @ \cup {Len(hist.processed)}]
              /\ tokens_seen_since_last_save' = 0
         ELSE UNCHANGED <<ckpts, hist, tokens_seen_since_last_save>>
    /\ pc' = "end_iter"
    /\ UNCHANGED <<outcome, cfgVars, sae, wandb, handle, global_inputs,
                   global_outputs, tokens_seen_since_last_step, step, tokens,
                   batch, exc, fwd, sae_input, sae_output, loss>>

\* lines 199-200
EndIter ==
    /\ pc = "end_iter"
    /\ batch' = <<>>
    /\ fwd' = NoFwd
    /\ pc' = "for"
    /\ UNCHANGED <<outcome, cfgVars, sae, wandb, handle, global_inputs,
                   global_outputs, tokens_seen_since_last_step,
                   tokens_seen_since_last_save, step, tokens, exc,
                   sae_input, sae_output, loss, ckpts, hist>>

\* lines 201-204, then the return or the re-raise
Finally ==
    /\ pc = "finally"
    /\ handle' = [handle EXCEPT !.attached = FALSE, !.removes = @ + 1]
    /\ wandb' = IF use_wandb THEN [wandb EXCEPT !.finishes = @ + 1] ELSE wandb
    /\ outcome' = IF exc = NoExc THEN "returned" ELSE "raised"
    /\ pc' = "done"
    /\ UNCHANGED <<cfgVars, sae, global_inputs, global_outputs,
                   tokens_seen_since_last_step, tokens_seen_since_last_save,
                   step, tokens, batch, exc, fwd, sae_input, sae_output, loss,
                   ckpts, hist>>

Next ==
    \/ WandbInit
    \/ GetSubmodule
    \/ MakeOptimizer
    \/ RegisterHook
    \/ EnterTry
    \/ ForNext
    \/ AppendOrStack
    \/ ModelForwardLayer
    \/ ExceptStopIteration
    \/ ComputeLoss
    \/ CheckStep
    \/ OptimizerStep
    \/ ZeroGrad
    \/ Renorm
    \/ ResetAndLog
    \/ CheckSave
    \/ EndIter
    \/ Finally

Spec == Init /\ [][Next]_vars

\* train_sae runs on one thread that is never suspended for good: as long
\* as a statement is left to run, one runs
SpecFair == Init /\ [][Next]_vars /\ WF_vars(Next)

\* ---------------------------------------------- the loss of a training step
\* SpecLoss applies lines 171-184 to two captured pairs under one codec and
\* one configuration, to compare the two results.
LossSeqLen == 3

\* captured tensors of shape (1, LossSeqLen, 1) over {0, 1}
LossTensors == { <<row>> : row \in [1..LossSeqLen -> {<<0>>, <<1>>}] }

\* codecs with d_in = 1 and two latents: one as constructed (decoder a copy
\* of the encoder, biases zero, k = 1), one after training (biases set,
\* encoder and decoder apart, k = 2); decoder rows have norm 1
LossCodecs ==
    { [cfg |-> [d_in |-> 1, num_latents |-> 2, k |-> 1],
       W_enc |-> <<<<1>>, <<-1>>>>, b_enc |-> <<0, 0>>,
       W_dec |-> <<<<1>>, <<-1>>>>, b_dec |-> <<0>>],
      [cfg |-> [d_in |-> 1, num_latents |-> 2, k |-> 2],
       W_enc |-> <<<<2>>, <<-1>>>>, b_enc |-> <<0, 1>>,
       W_dec |-> <<<<1>>, <<-1>>>>, b_dec |-> <<1>>] }

\* t with the elements of its first p positions changed (0 <-> 1)
FlipFirst(t, p) ==
    [b \in 1..Len(t) |-> [s \in 1..Len(t[b]) |->
        IF s <= p THEN [d \in 1..Len(t[b][s]) |-> 1 - t[b][s][d]]
                  ELSE t[b][s]]]

NoResult == [sae_input |-> <<>>, sae_output |-> <<>>, predicted |-> <<>>,
             loss |-> [num |-> 0, den |-> 0]]

InitLoss ==
    /\ pc = "loss_only"
    /\ outcome = "running"
    /\ use_wandb = FALSE
    /\ train_cfg = <<>>
    /\ sae = <<>>
    /\ wandb = <<>>
    /\ handle = <<>>
    /\ global_inputs = None
    /\ global_outputs = None
    /\ tokens_seen_since_last_step = 0
    /\ tokens_seen_since_last_save = 0
    /\ step = -1
    /\ tokens = None
    /\ batch = <<>>
    /\ exc = NoExc
    /\ fwd = NoFwd
    /\ sae_input = None
    /\ sae_output = None
    /\ loss = None
    /\ ckpts = <<>>
    /\ hist = <<>>
    /\ diskrun = <<>>
    /\ codecrun = <<>>
       \* the second pair is the first with a prefix of the input and a
       \* prefix of the output changed, each of any length
    /\ \E c \in LossCodecs, tie \in TieOrders(2), m \in 0..LossSeqLen,
          transcode \in BOOLEAN, gi \in LossTensors, go \in LossTensors,
          p \in 0..LossSeqLen, q \in 0..LossSeqLen :
         lossrun = [codec |-> c, tie |-> tie, mask_first_n_tokens |-> m,
                    transcode |-> transcode,
                    gi1 |-> gi, go1 |-> go,
                    gi2 |-> FlipFirst(gi, p), go2 |-> FlipFirst(go, q),
                    done |-> 0, r1 |-> NoResult, r2 |-> NoResult]

mainVars == <<pc, outcome, use_wandb, train_cfg, sae, wandb, handle,
              global_inputs, global_outputs, tokens_seen_since_last_step,
              tokens_seen_since_last_save, step, tokens, batch, exc, fwd,
              sae_input, sae_output, loss, ckpts, hist>>

\* lines 171-184 on the first captured pair
LossStepFirst ==
    /\ pc = "loss_only"
    /\ lossrun.done = 0
    /\ lossrun' = [lossrun EXCEPT
          !.done = 1,
          !.r1 = TrainStep(lossrun.codec, lossrun.gi1, lossrun.go1,
                           lossrun.mask_first_n_tokens, lossrun.transcode,
                           lossrun.tie)]
    /\ UNCHANGED <<mainVars, diskrun, codecrun>>

\* lines 171-184 on the second captured pair, same codec
LossStepSecond ==
    /\ pc = "loss_only"
    /\ lossrun.done = 1
    /\ lossrun' = [lossrun EXCEPT
          !.done = 2,
          !.r2 = TrainStep(lossrun.codec, lossrun.gi2, lossrun.go2,
                           lossrun.mask_first_n_tokens, lossrun.transcode,
                           lossrun.tie)]
    /\ UNCHANGED <<mainVars, diskrun, codecrun>>

NextLoss == LossStepFirst \/ LossStepSecond

SpecLoss == InitLoss /\ [][NextLoss]_vars

\* ---------------------------------------------------- checkpoints on disk
\* SpecDisk saves a codec into a checkpoint directory (lines 61-67) and
\* loads the directory back (lines 47-59).  Tensor elements are integers
\* counting half units (2 is 1.0); an element type can hold the multiples
\* of its grid step.
MaxValue == 4

DTypes == {"float64", "float32", "bfloat16"}

\* (num_latents, d_in) of the codecs
DiskShapes == {<<1, 1>>, <<2, 1>>, <<2, 2>>}
DiskHookpoints == {"layers.0", "layers.1.mlp"}
Offsets == {0, 1}

TensorNames == {"encoder.weight", "encoder.bias", "W_dec", "b_dec"}
Rank2 == {"encoder.weight", "W_dec"}

GridStep(dtype) ==
    CASE dtype = "float64" -> 1
      [] dtype = "float32" -> 2
      [] OTHER -> 4

Representable(dtype) == {v \in 0..MaxValue : v % GridStep(dtype) = 0}

\* Tensor.to(dtype) of one element: the nearest value the type holds, a tie
\* going to the one with the even mantissa
Cast(v, dtype) ==
    LET s == GridStep(dtype)
        r == v % s
        lo == v - r
    IN IF r = 0 THEN v
       ELSE IF 2 * r < s THEN lo
       ELSE IF 2 * r > s THEN lo + s
       ELSE IF (lo \div s) % 2 = 0 THEN lo ELSE lo + s

\* the n-th element of a tensor of the given type, for the codecs drawn
Elem(dtype, n) == (n % (MaxValue \div GridStep(dtype) + 1)) * GridStep(dtype)

PatternVec(dtype, off, n) == [j \in 1..n |-> Elem(dtype, off + j - 1)]

PatternMat(dtype, off, rows, cols) ==
    [i \in 1..rows |-> [j \in 1..cols |->
        Elem(dtype, off + (i - 1) * cols + j - 1)]]

\* a codec in any state: every parameter set, of any element type
PatternCodec(cfg, dtype, o) ==
    [cfg |-> cfg, dtype |-> dtype,
     W_enc |-> PatternMat(dtype, o[1], cfg.num_latents, cfg.d_in),
     b_enc |-> PatternVec(dtype, o[2], cfg.num_latents),
     W_dec |-> PatternMat(dtype, o[3], cfg.num_latents, cfg.d_in),
     b_dec |-> PatternVec(dtype, o[4], cfg.d_in)]

DiskCfgs ==
    {[d_in |-> sh[2], num_latents |-> sh[1], hookpoint |-> h, k |-> k,
      transcode |-> t] :
        sh \in DiskShapes, h \in DiskHookpoints, k \in 1..2, t \in BOOLEAN}

DiskCodecs ==
    {PatternCodec(cfg, dtype, o) :
        cfg \in {c \in DiskCfgs : c.k <= c.num_latents}, dtype \in DTypes,
        o \in [1..4 -> Offsets]}

\* nn.Linear's random weight, drawn with one non-zero element per row so
\* that the row's norm is that element
InitWeight(rows, cols, o, v) ==
    [i \in 1..rows |-> [j \in 1..cols |->
        IF j = ((i + o) % cols) + 1 THEN v ELSE 0]]

\* Sae.set_decoder_norm_to_unit_norm on concrete rows that hold at most
\* one non-zero element: that element becomes 1.0 or -1.0 (rounded), zeros
\* stay; one is the integer standing for 1.0
UnitNormRows(W, one) ==
    [i \in 1..Len(W) |-> [j \in 1..Len(W[i]) |->
        IF W[i][j] = 0 THEN 0 ELSE IF W[i][j] > 0 THEN one ELSE -one]]

\* Sae.__init__(cfg, device) without a dtype: float32 parameters
NewSae(cfg, W) ==
    [cfg |-> cfg, dtype |-> "float32",
     W_enc |-> W,
     b_enc |-> [j \in 1..cfg.num_latents |-> 0],
     W_dec |-> UnitNormRows(W, 2),
     b_dec |-> [j \in 1..cfg.d_in |-> 0]]

\* Module.state_dict()
StateDict(c) ==
    [n \in TensorNames |->
        CASE n = "encoder.weight" -> c.W_enc
          [] n = "encoder.bias" -> c.b_enc
          [] n = "W_dec" -> c.W_dec
          [] OTHER -> c.b_dec]

ShapeOf(n, t) == IF n \in Rank2 THEN <<Len(t), Len(t[1])>> ELSE <<Len(t)>>

\* safetensors save_model: per tensor its type, shape and row-major data
SaveModel(c) ==
    [n \in TensorNames |->
        [dtype |-> c.dtype,
         shape |-> ShapeOf(n, StateDict(c)[n]),
         data |-> IF n \in Rank2 THEN Flatten(StateDict(c)[n])
                                 ELSE StateDict(c)[n]]]

\* safetensors load: the tensor of the stored shape over the stored data
View(data, shape) ==
    IF Len(shape) = 1 THEN data
    ELSE [i \in 1..shape[1] |-> [j \in 1..shape[2] |->
             data[(i - 1) * shape[2] + j]]]

\* json.dump(asdict(cfg)): numbers, strings and true/false as text
JsonDump(cfg) ==
    [d_in |-> [t |-> "number", v |-> cfg.d_in],
     num_latents |-> [t |-> "number", v |-> cfg.num_latents],
     hookpoint |-> [t |-> "string", v |-> cfg.hookpoint],
     k |-> [t |-> "number", v |-> cfg.k],
     transcode |-> [t |-> "literal",
                    v |-> IF cfg.transcode THEN "true" ELSE "false"]]

\* SaeConfig(**json.load(f))
JsonLoad(j) ==
    [d_in |-> j.d_in.v, num_latents |-> j.num_latents.v,
     hookpoint |-> j.hookpoint.v, k |-> j.k.v,
     transcode |-> (j.transcode.v = "true")]

Absent == [present |-> FALSE, body |-> <<>>]
File(body) == [present |-> TRUE, body |-> body]

NoCodec == [cfg |-> <<>>, dtype |-> "", W_enc |-> <<>>, b_enc |-> <<>>,
            W_dec |-> <<>>, b_dec |-> <<>>]
Failed(why) == [status |-> "error", error |-> why, sae |-> NoCodec]
Loaded(c) == [status |-> "ok", error |-> "", sae |-> c]

\* faulty variant: no shape is compared
ShapeMismatch_Never(c, archive) == FALSE

\* load_state_dict: a stored tensor of another shape than the parameter
ShapeMismatch(c, archive) ==
    \E n \in TensorNames : archive[n].shape # ShapeOf(n, StateDict(c)[n])

CastTensor(n, t, dtype) ==
    IF n \in Rank2
    THEN [i \in 1..Len(t) |-> [j \in 1..Len(t[i]) |-> Cast(t[i][j], dtype)]]
    ELSE [i \in 1..Len(t) |-> Cast(t[i], dtype)]

\* faulty variant: W_dec keeps the constructor's value
LoadStateDict_KeepDecoder(c, archive) ==
    LET new == [n \in TensorNames |->
                   CastTensor(n, View(archive[n].data, archive[n].shape),
                              c.dtype)]
    IN [cfg |-> c.cfg, dtype |-> c.dtype,
        W_enc |-> new["encoder.weight"], b_enc |-> new["encoder.bias"],
        W_dec |-> c.W_dec, b_dec |-> new["b_dec"]]

\* load_state_dict: param.copy_(stored) for every parameter, which converts
\* the stored elements to the parameter's type
LoadStateDict(c, archive) ==
    LET new == [n \in TensorNames |->
                   CastTensor(n, View(archive[n].data, archive[n].shape),
                              c.dtype)]
    IN [cfg |-> c.cfg, dtype |-> c.dtype,
        W_enc |-> new["encoder.weight"], b_enc |-> new["encoder.bias"],
        W_dec |-> new["W_dec"], b_dec |-> new["b_dec"]]

\* Sae.load_from_disk; o and v are the draw of the constructor's weight
LoadFromDiskResult(dir, o, v) ==
    IF ~dir.cfg.present THEN Failed("cfg.json missing")
    ELSE LET cfg == JsonLoad(dir.cfg.body)
             c == NewSae(cfg, InitWeight(cfg.num_latents, cfg.d_in, o, v))
         IN IF ~dir.st.present THEN Failed("sae.safetensors missing")
            ELSE IF ShapeMismatch(c, dir.st.body) THEN Failed("size mismatch")
            ELSE Loaded(LoadStateDict(c, dir.st.body))

\* the checkpoint an earlier run left under the same path
EarlierCodec(sh) ==
    PatternCodec([d_in |-> sh[2], num_latents |-> sh[1],
                  hookpoint |-> "layers.0", k |-> 1, transcode |-> FALSE],
                 "float32", <<1, 0, 0, 1>>)

\* a directory: empty, or with one or both files of an earlier checkpoint
DiskDirs ==
    {[cfg |-> Absent, st |-> Absent]} \cup
    {[cfg |-> IF hasCfg THEN File(JsonDump(EarlierCodec(sh).cfg)) ELSE Absent,
      st |-> IF hasSt THEN File(SaveModel(EarlierCodec(sh))) ELSE Absent] :
        sh \in DiskShapes, hasCfg \in BOOLEAN, hasSt \in BOOLEAN}

\* the training procedure's variables, at rest in the other specifications
IdleMain(label) ==
    /\ pc = label
    /\ outcome = "running"
    /\ use_wandb = FALSE
    /\ train_cfg = <<>>
    /\ sae = <<>>
    /\ wandb = <<>>
    /\ handle = <<>>
    /\ global_inputs = None
    /\ global_outputs = None
    /\ tokens_seen_since_last_step = 0
    /\ tokens_seen_since_last_save = 0
    /\ step = -1
    /\ tokens = None
    /\ batch = <<>>
    /\ exc = NoExc
    /\ fwd = NoFwd
    /\ sae_input = None
    /\ sae_output = None
    /\ loss = None
    /\ ckpts = <<>>
    /\ hist = <<>>

InitDisk ==
    /\ IdleMain("disk")
    /\ lossrun = <<>>
    /\ codecrun = <<>>
    /\ \E c \in DiskCodecs, dir \in DiskDirs :
         diskrun = [sae |-> c, prior |-> dir, dir |-> dir, saved |-> "no",
                    loaded |-> FALSE, result |-> Failed("")]

\* Sae.save_to_disk: the archive (line 65), then the record (lines 66-67)
SaveToDisk ==
    /\ pc = "disk"
    /\ diskrun.saved = "no"
    /\ ~diskrun.loaded
    /\ diskrun' = [diskrun EXCEPT
          !.saved = "done",
          !.dir = [cfg |-> File(JsonDump(diskrun.sae.cfg)),
                   st |-> File(SaveModel(diskrun.sae))]]
    /\ UNCHANGED <<mainVars, lossrun, codecrun>>

\* Sae.save_to_disk stopped after line 65: the archive is written, the
\* record is as it was
SaveToDiskInterrupted ==
    /\ pc = "disk"
    /\ diskrun.saved = "no"
    /\ ~diskrun.loaded
    /\ diskrun' = [diskrun EXCEPT
          !.saved = "interrupted",
          !.dir = [cfg |-> diskrun.dir.cfg,
                   st |-> File(SaveModel(diskrun.sae))]]
    /\ UNCHANGED <<mainVars, lossrun, codecrun>>

\* Sae.load_from_disk on the directory as it is
LoadFromDisk ==
    /\ pc = "disk"
    /\ ~diskrun.loaded
    /\ \E o \in Offsets, v \in Representable("float32") \ {0} :
         diskrun' = [diskrun EXCEPT
            !.loaded = TRUE,
            !.result = LoadFromDiskResult(diskrun.dir, o, v)]
    /\ UNCHANGED <<mainVars, lossrun, codecrun>>

NextDisk == SaveToDisk \/ SaveToDiskInterrupted \/ LoadFromDisk

SpecDisk == InitDisk /\ [][NextDisk]_vars

\* ------------------------------------------------------ encode and decode
\* SpecCodec applies Sae.encode, Sae.decode and Sae.forward (lines 77-93)
\* to one codec and one input of shape (B, S, d_in).  Latent indices count
\* from 1 here, from 0 in the program.

\* (B, S) of the inputs, by d_in
CodecShapes(d) ==
    IF d = 1 THEN {<<1, 1>>, <<1, 2>>, <<2, 3>>}
    ELSE {<<1, 1>>, <<1, 2>>, <<2, 1>>}

CodecInputs(d) ==
    UNION {[1..sh[1] -> [1..sh[2] -> [1..d -> {0, 1}]]] : sh \in CodecShapes(d)}

\* trained codecs of three latents: rows of either sign, biases set
TrainedCodecs ==
    {[cfg |-> [d_in |-> 1, num_latents |-> 3, k |-> k],
      W_enc |-> W, b_enc |-> be, W_dec |-> <<<<1>>, <<2>>, <<-1>>>>,
      b_dec |-> bd] :
        k \in 1..3,
        W \in {<<<<1>>, <<-1>>, <<1>>>>, <<<<-1>>, <<-2>>, <<0>>>>,
               <<<<2>>, <<1>>, <<-1>>>>},
        be \in {<<0, 0, 0>>, <<0, -1, 1>>}, bd \in {<<0>>, <<1>>}}
    \cup
    {[cfg |-> [d_in |-> 2, num_latents |-> 3, k |-> k],
      W_enc |-> <<<<1, -1>>, <<-1, 0>>, <<0, 2>>>>, b_enc |-> <<0, 1, -1>>,
      W_dec |-> <<<<1, 0>>, <<0, 1>>, <<-1, 2>>>>, b_dec |-> <<1, 0>>] :
        k \in 1..3}

\* the ranking that puts indices a and b first and leaves the rest in order
PrefOrder(n, a, b) ==
    [j \in 1..n |-> IF j = a THEN 1 ELSE IF j = b THEN 2 ELSE 2 + j]

\* a codec as constructed (lines 33-45) whose decoder bias was then set
FreshCodec(cfg, W, bias) ==
    [cfg |-> cfg,
     W_enc |-> W,
     b_enc |-> [j \in 1..cfg.num_latents |-> 0],
     W_dec |-> UnitNormRows(W, 1),
     b_dec |-> bias]

\* the batch whose every token is the vector v
Broadcast(v, B, S) == [b \in 1..B |-> [s \in 1..S |-> v]]

NoEnc == [top_acts |-> <<>>, top_indices |-> <<>>]

InitCodec ==
    /\ IdleMain("codec")
    /\ lossrun = <<>>
    /\ diskrun = <<>>
    /\ \/ \E c \in TrainedCodecs, tie \in TieOrders(3) :
            \E x \in CodecInputs(c.cfg.d_in) :
               codecrun = [codec |-> c, x |-> x, tie |-> tie, fresh |-> FALSE,
                           stage |-> 0, enc |-> NoEnc, out |-> <<>>]
       \* a fresh codec of d_in = 4, num_latents = 8, k = 2 with any decoder
       \* bias, on the (2, 3, 4) batch of that bias
       \/ \E o \in Offsets, v \in {-1, 2},
             bias \in [1..4 -> {-1, 2}] \cup {<<0, 0, 0, 0>>},
             a \in 1..8, b \in 1..8 :
            /\ a # b
            /\ codecrun =
                  [codec |-> FreshCodec([d_in |-> 4, num_latents |-> 8,
                                         k |-> 2],
                                        InitWeight(8, 4, o, v), bias),
                   x |-> Broadcast(bias, 2, 3), tie |-> PrefOrder(8, a, b),
                   fresh |-> TRUE, stage |-> 0, enc |-> NoEnc, out |-> <<>>]

\* Sae.encode
EncodeStep ==
    /\ pc = "codec"
    /\ codecrun.stage = 0
    /\ codecrun' = [codecrun EXCEPT
          !.stage = 1,
          !.enc = Encode(codecrun.codec, codecrun.x, codecrun.tie)]
    /\ UNCHANGED <<mainVars, lossrun, diskrun>>

\* Sae.decode on what encode returned
DecodeStep ==
    /\ pc = "codec"
    /\ codecrun.stage = 1
    /\ codecrun' = [codecrun EXCEPT
          !.stage = 2,
          !.out = Decode(codecrun.codec, codecrun.enc.top_acts,
                         codecrun.enc.top_indices)]
    /\ UNCHANGED <<mainVars, lossrun, diskrun>>

\* Sae.forward: decode(*encode(x))
ForwardStep ==
    /\ pc = "codec"
    /\ codecrun.stage = 0
    /\ codecrun' = [codecrun EXCEPT
          !.stage = 2,
          !.enc = Encode(codecrun.codec, codecrun.x, codecrun.tie),
          !.out = Forward(codecrun.codec, codecrun.x, codecrun.tie)]
    /\ UNCHANGED <<mainVars, lossrun, diskrun>>

NextCodec == EncodeStep \/ DecodeStep \/ ForwardStep

SpecCodec == InitCodec /\ [][NextCodec]_vars

\* ------------------------------------------------- history, for the claims
\* number of batches stacked and counted so far (line 161-163 has run)
NProcessed == Len(hist.processed)

\* positions after line 188 of the current batch
PastStep == {"zero_grad", "renorm", "reset_log", "check_save", "end_iter"}

\* the step decision (line 187) of batch b has been taken and carried out
StepDecided(b) ==
    \/ b < NProcessed
    \/ b = NProcessed /\ (pc \in PastStep \/
                          (pc \in {"for", "body", "finally", "done"}
                           /\ exc = NoExc))

\* the save decision (line 195) of batch b has been taken and carried out
SaveDecided(b) ==
    \/ b < NProcessed
    \/ b = NProcessed /\ (pc = "end_iter" \/
                          (pc \in {"for", "body", "finally", "done"}
                           /\ exc = NoExc))

Max(S) == CHOOSE x \in S : \A y \in S : y <= x

\* tokens of the processed batches after the last batch of `marks` before b,
\* up to and including b
TokensSince(marks, b) ==
    LET prev == Max({0} \cup {k \in marks : k < b})
    IN SumSeq(SubSeq(hist.numels, prev + 1, b))

\* the i-th smallest element of a set of numbers
RECURSIVE Nth(_, _)
Nth(S, i) ==
    LET lo == CHOOSE x \in S : \A y \in S : x <= y
    IN IF i = 1 THEN lo ELSE Nth(S \ {lo}, i - 1)

\* the hooked layer's true input and output for the batch in the buffer
RECURSIVE ApplyLayers(_, _)
ApplyLayers(i, x) == IF i = 0 THEN x ELSE LayerFn(i, ApplyLayers(i - 1, x))

TrueLayerInput == ApplyLayers(sae.cfg.hookpoint - 1, Embed(Stack(batch)))
TrueLayerOutput == ApplyLayers(sae.cfg.hookpoint, Embed(Stack(batch)))

\* --------------------------------------------------------------- claims
\* C1: an optimizer step occurs on exactly the processed batches at which
\* the tokens counted since the previous step (or since start) reach or
\* cross optimize_every_n_tokens, and the counter is zero after each step.
C1_StepCadence ==
    /\ \A b \in 1..NProcessed :
         StepDecided(b) =>
           ((b \in hist.steps) <=>
              TokensSince(hist.steps, b) >= train_cfg.optimize_every_n_tokens)
    /\ (pc \in {"check_save", "end_iter"} /\ NProcessed \in hist.steps)
         => tokens_seen_since_last_step = 0
    /\ (pc \in {"check_save", "end_iter"} /\ NProcessed \notin hist.steps)
         => /\ tokens_seen_since_last_step = TokensSince(hist.steps, NProcessed)
            /\ tokens_seen_since_last_step < train_cfg.optimize_every_n_tokens

\* a step that crossed the threshold with tokens to spare, after a batch
\* that took no step
C1_Witness ==
    /\ pc = "end_iter"
    /\ NProcessed \in hist.steps
    /\ NProcessed - 1 \notin hist.steps /\ NProcessed > 1
    /\ TokensSince(hist.steps, NProcessed) > train_cfg.optimize_every_n_tokens
    /\ tokens_seen_since_last_step = 0

\* C2: on every exit of train_sae after the tracking session was opened,
\* the session is closed exactly once and the hook, if it was attached, is
\* detached exactly once.
C2_CleanupOnEveryExit ==
    (pc = "done" /\ wandb.inits = 1) =>
        /\ wandb.finishes = 1
        /\ handle.registered => (handle.removes = 1 /\ ~handle.attached)

\* C3: the decoder is away from its renormalised state only between
\* optimizer.step() and set_decoder_norm_to_unit_norm(): no forward pass,
\* checkpoint, metric, loop head or exit sees it.
C3_RenormAfterEveryStep ==
    ~sae.params.unit => pc \in {"zero_grad", "renorm"}

\* a forward pass that runs after an optimizer step and its renormalisation
C3_Witness ==
    pc = "forward" /\ sae.params.ver >= 1 /\ sae.params.unit

\* C4: every record drawn from the token source is in the batch buffer or
\* in exactly one processed batch, and batches are consecutive groups of
\* model_batch_size records.
C4_NoRecordSkipped ==
    pc = "for" =>
      \A r \in 0..step :
        \/ \E j \in 1..Len(batch) : batch[j].idx = r
        \/ Cardinality({b \in 1..NProcessed :
               \E j \in 1..Len(hist.processed[b]) :
                   hist.processed[b][j] = r}) = 1

\* C5: the hook's StopIteration is caught at the model(batch) call site: the
\* exception that reaches the finally block or the caller is never the
\* signal, and after the signal the step goes on to the loss with the pair
\* captured in this pass.
C5_SignalCaught ==
    /\ pc \in {"finally", "done"} => exc # StopIteration
    /\ (pc = "loss" /\ fwd.hooked) =>
         /\ exc = NoExc
         /\ outcome = "running"
         /\ global_inputs = TrueLayerInput
         /\ global_outputs = TrueLayerOutput

\* the signal was raised in this pass and the step is at the loss
C5_Witness ==
    pc = "loss" /\ fwd.hooked /\ exc = NoExc /\ NProcessed >= 2

\* C6: once the hooked layer has produced its output the captured pair is
\* that layer's input and output, a tuple unwrapped to its first element,
\* and no later layer runs in that pass.
C6_TapCapturesAndStops ==
    /\ fwd.hooked =>
         /\ global_inputs = (IF fwd.din.tuple THEN fwd.din.val[1]
                                              ELSE fwd.din.val)
         /\ global_outputs = (IF fwd.dout.tuple THEN fwd.dout.val[1]
                                                ELSE fwd.dout.val)
         /\ global_inputs = TrueLayerInput
         /\ global_outputs = TrueLayerOutput
         /\ fwd.ran = [i \in 1..sae.cfg.hookpoint |-> i]
    /\ (handle.attached /\ fwd.next > 0) =>
         \A j \in 1..Len(fwd.ran) : fwd.ran[j] <= sae.cfg.hookpoint

\* a pass hooked at a layer that is not the last, input and output both
\* delivered as tuples
C6_Witness ==
    /\ fwd.hooked /\ sae.cfg.hookpoint < NumLayers
    /\ fwd.din.tuple /\ fwd.dout.tuple
    /\ pc = "check_step"

\* C7: a checkpoint is written on exactly the processed batches at which
\* the tokens counted since the previous checkpoint (or since start) reach
\* save_every_n_tokens, whatever the optimizer steps were; its path is made
\* of wandb_name alone; the save counter is zero after each save.
C7_SaveCadence ==
    /\ \A b \in 1..NProcessed :
         SaveDecided(b) =>
           ((b \in hist.saves) <=>
              TokensSince(hist.saves, b) >= train_cfg.save_every_n_tokens)
    /\ Len(ckpts) = Cardinality(hist.saves)
    /\ \A i \in 1..Len(ckpts) :
         /\ ckpts[i].path = <<"sae-ckpts", train_cfg.wandb_name>>
         /\ ckpts[i].batch = Nth(hist.saves, i)
    /\ (pc = "end_iter" /\ NProcessed \in hist.saves)
         => tokens_seen_since_last_save = 0
    /\ (pc = "end_iter" /\ NProcessed \notin hist.saves)
         => tokens_seen_since_last_save = TokensSince(hist.saves, NProcessed)

\* a checkpoint on a batch without an optimizer step, after a batch without
\* a checkpoint
C7_Witness ==
    /\ pc = "end_iter"
    /\ NProcessed \in hist.saves /\ NProcessed \notin hist.steps
    /\ \E b \in 1..NProcessed : b \notin hist.saves
    /\ tokens_seen_since_last_save = 0
    /\ tokens_seen_since_last_step > 0

\* C8: the target of a training step is the captured layer output without
\* its first mask_first_n_tokens positions; the codec input is the same
\* slice of the layer output when transcode is false and of the layer
\* input when transcode is true.
C8_InputAndTarget ==
    pc \in {"check_step"} \cup PastStep \cup {"optimizer_step"} =>
      LET m == train_cfg.mask_first_n_tokens
          src == IF sae.cfg.transcode THEN TrueLayerInput ELSE TrueLayerOutput
          kept == IF m < SeqLen THEN SeqLen - m ELSE 0
      IN /\ Len(sae_output) = Len(batch) /\ Len(sae_input) = Len(batch)
         /\ \A b \in 1..Len(batch) :
              /\ Len(sae_output[b]) = kept /\ Len(sae_input[b]) = kept
              /\ \A j \in 1..kept :
                   /\ sae_output[b][j] = TrueLayerOutput[b][j + m]
                   /\ sae_input[b][j] = src[b][j + m]
         /\ loss.input = sae_input /\ loss.target = sae_output
         /\ loss.batch = NProcessed

\* a transcoding step with a masked prefix whose input and target differ
C8_Witness ==
    /\ pc = "check_step"
    /\ sae.cfg.transcode
    /\ train_cfg.mask_first_n_tokens = 1
    /\ sae_input # sae_output
    /\ Len(batch) = 2

\* two tensors of one shape that agree at every position after the first m
AgreeAfter(x, y, m) ==
    \A b \in 1..Len(x) : \A s \in 1..Len(x[b]) : s > m => x[b][s] = y[b][s]

\* C9: two training steps from the same codec whose captured inputs and
\* outputs differ only in the first mask_first_n_tokens positions compute
\* the same loss, numerator and normaliser, from the same codec input,
\* prediction and target (of which the gradients are a function).
C9_MaskedPrefixIgnored ==
    (/\ lossrun.done = 2
     /\ AgreeAfter(lossrun.gi1, lossrun.gi2, lossrun.mask_first_n_tokens)
     /\ AgreeAfter(lossrun.go1, lossrun.go2, lossrun.mask_first_n_tokens))
    => /\ lossrun.r1.loss.num = lossrun.r2.loss.num
       /\ lossrun.r1.loss.den = lossrun.r2.loss.den
       /\ lossrun.r1.sae_input = lossrun.r2.sae_input
       /\ lossrun.r1.sae_output = lossrun.r2.sae_output
       /\ lossrun.r1.predicted = lossrun.r2.predicted

\* two transcoding steps whose pairs differ in the masked first position,
\* with a loss that is defined and not zero
C9_Witness ==
    /\ lossrun.done = 2
    /\ lossrun.mask_first_n_tokens = 1
    /\ lossrun.transcode
    /\ lossrun.gi1 # lossrun.gi2 /\ lossrun.go1 # lossrun.go2
    /\ AgreeAfter(lossrun.gi1, lossrun.gi2, 1)
    /\ AgreeAfter(lossrun.go1, lossrun.go2, 1)
    /\ lossrun.r1.loss.num > 0 /\ lossrun.r1.loss.den > 0

\* C10: with tracking on, one metric per optimizer step and none otherwise;
\* the i-th metric is the loss of the batch of the i-th step, keyed by the
\* enumerate index of the record in hand on that batch; keys increase.
C10_MetricPerStep ==
    /\ ~use_wandb => wandb.log = <<>>
    /\ use_wandb =>
         /\ hist.logged \subseteq hist.steps
         /\ \A b \in hist.steps :
              (b < NProcessed \/ pc \notin {"zero_grad", "renorm", "reset_log"})
                 => b \in hist.logged
         /\ Len(wandb.log) = Cardinality(hist.logged)
         /\ \A i \in 1..Len(wandb.log) :
              LET b == Nth(hist.logged, i)
                  recs == hist.processed[b]
              IN /\ wandb.log[i].fvu.batch = b
                 /\ wandb.log[i].fvu.ver = i - 1
                 /\ wandb.log[i].step = recs[Len(recs)] + 1
         /\ \A i \in 1..Len(wandb.log), j \in 1..Len(wandb.log) :
              i < j => wandb.log[i].step < wandb.log[j].step

\* two metrics emitted, with a batch in between that emitted none
C10_Witness ==
    /\ use_wandb /\ pc = "end_iter"
    /\ Len(wandb.log) = 2
    /\ \E b \in 1..NProcessed : b \notin hist.steps /\ b < Nth(hist.logged, 2)

\* --------------------------------------------------------------- C11, C12
\* the elements of tensor n, row after row
Flat(n, t) == IF n \in Rank2 THEN Flatten(t) ELSE t

Abs(x) == IF x < 0 THEN -x ELSE x

\* a completed save_to_disk followed by load_from_disk
SavedThenLoaded ==
    pc = "disk" /\ diskrun.saved = "done" /\ diskrun.loaded

\* C11 as stated: after save_to_disk then load_from_disk the loaded codec
\* has the original's cfg fields and parameters equal to the original's.
C11_RoundTripExact ==
    SavedThenLoaded =>
        /\ diskrun.result.status = "ok"
        /\ diskrun.result.sae.cfg = diskrun.sae.cfg
        /\ \A n \in TensorNames :
              StateDict(diskrun.result.sae)[n] = StateDict(diskrun.sae)[n]

\* C11 amended: after save_to_disk then load_from_disk the loaded codec has
\* the original's cfg fields and parameters of the original's shapes that
\* hold the stored values, none left from the constructor: equal to the
\* original's when its element type is float32 or narrower, and otherwise
\* the float32 values nearest to the original's.
C11_RoundTrip ==
    SavedThenLoaded =>
        /\ diskrun.result.status = "ok"
        /\ diskrun.result.sae.cfg = diskrun.sae.cfg
        /\ \A n \in TensorNames :
              LET a == StateDict(diskrun.sae)[n]
                  b == StateDict(diskrun.result.sae)[n]
              IN /\ ShapeOf(n, b) = ShapeOf(n, a)
                 /\ \A i \in 1..Len(Flat(n, a)) :
                       IF diskrun.sae.dtype = "float64"
                       THEN /\ Flat(n, b)[i] % 2 = 0
                            /\ Abs(Flat(n, b)[i] - Flat(n, a)[i]) <= 1
                       ELSE Flat(n, b)[i] = Flat(n, a)[i]

\* a float64 codec with an element float32 cannot hold and with biases
\* that are not the constructor's zeros has been saved over an earlier
\* checkpoint and loaded
C11_Witness ==
    /\ SavedThenLoaded
    /\ diskrun.result.status = "ok"
    /\ diskrun.sae.dtype = "float64"
    /\ diskrun.prior.cfg.present /\ diskrun.prior.st.present
    /\ diskrun.sae.cfg.num_latents = 2 /\ diskrun.sae.cfg.d_in = 2
    /\ diskrun.sae.W_dec[1][1] % 2 = 1
    /\ diskrun.sae.b_enc[1] # 0
    /\ diskrun.result.sae.W_dec # diskrun.sae.W_dec

\* the stored tensors have the shapes the stored record asks for
ArchiveFits(dir) ==
    LET L == dir.cfg.body.num_latents.v
        d == dir.cfg.body.d_in.v
    IN /\ dir.st.body["encoder.weight"].shape = <<L, d>>
       /\ dir.st.body["encoder.bias"].shape = <<L>>
       /\ dir.st.body["W_dec"].shape = <<L, d>>
       /\ dir.st.body["b_dec"].shape = <<d>>

Loadable(dir) ==
    IF dir.cfg.present /\ dir.st.present THEN ArchiveFits(dir) ELSE FALSE

LoadFailed ==
    diskrun.result.status = "error" /\ diskrun.result.sae = NoCodec

PositionOutput(c, token, tie) ==
    \* (the singleton binds the selection once)
    CHOOSE r \in {VecAdd(VecSum([i \in 1..c.cfg.k |->
                                    VecScale(top.values[i],
                                             c.W_dec[top.indices[i]])],
                                [d \in 1..c.cfg.d_in |-> 0]),
                         c.b_dec) :
                     top \in {TopKOf(PreActs(c, token), c.cfg.k, tie)}} : TRUE

\* C13: for an input of shape (B, S, d_in) and k <= num_latents, encode
\* returns values and indices of shape (B, S, k), decode(encode(x)) has
\* shape (B, S, d_in), and its position (b, s) is built from the top-k
\* values and indices of input position (b, s) alone.
C13_ShapeRoundTrip ==
    (pc = "codec" /\ codecrun.stage = 2) =>
        LET c == codecrun.codec
            x == codecrun.x
            B == Len(x)
            S == Len(x[1])
        IN /\ Len(codecrun.enc.top_acts) = B
           /\ Len(codecrun.enc.top_indices) = B
           /\ Len(codecrun.out) = B
           /\ \A b \in 1..B :
                 /\ Len(codecrun.enc.top_acts[b]) = S
                 /\ Len(codecrun.enc.top_indices[b]) = S
                 /\ Len(codecrun.out[b]) = S
                 /\ \A s \in 1..S :
                       /\ Len(codecrun.enc.top_acts[b][s]) = c.cfg.k
                       /\ Len(codecrun.enc.top_indices[b][s]) = c.cfg.k
                       /\ Len(codecrun.out[b][s]) = c.cfg.d_in
                       /\ codecrun.out[b][s] =
                             PositionOutput(c, x[b][s], codecrun.tie)

\* a (2, 3, 1) batch whose rows differ and whose row transposed would
\* differ has been encoded and decoded to an output that differs by position
C13_Witness ==
    /\ pc = "codec" /\ codecrun.stage = 2
    /\ Len(codecrun.x) = 2 /\ Len(codecrun.x[1]) = 3
    /\ codecrun.codec.cfg.k = 2
    /\ codecrun.out[1][2] # codecrun.out[2][1]
    /\ codecrun.out[1][3] # codecrun.out[2][2]
    /\ codecrun.out[1] # codecrun.out[2]

\* C14: for a fresh codec (encoder bias zero) with d_in = 4, num_latents =
\* 8, k = 2 and any decoder bias, forward on the (2, 3, 4) batch whose every
\* token is the decoder bias returns the decoder bias at each of the 2 x 3
\* positions, whichever two indices the tie selects.
C14_BiasFixedPoint ==
    (pc = "codec" /\ codecrun.fresh /\ codecrun.stage = 2) =>
        /\ Len(codecrun.out) = 2
        /\ \A b \in 1..2 :
              /\ Len(codecrun.out[b]) = 3
              /\ \A s \in 1..3 : codecrun.out[b][s] = codecrun.codec.b_dec

\* forward has run on the batch of a non-zero decoder bias, the tie having
\* selected indices 8 and 3 at every position
C14_Witness ==
    /\ pc = "codec" /\ codecrun.fresh /\ codecrun.stage = 2
    /\ codecrun.codec.b_dec = <<2, -1, -1, 2>>
    /\ codecrun.x = Broadcast(codecrun.codec.b_dec, 2, 3)
    /\ codecrun.codec.b_enc = <<0, 0, 0, 0, 0, 0, 0, 0>>
    /\ \A b \in 1..2 : \A s \in 1..3 :
          codecrun.enc.top_indices[b][s] = <<8, 3>>

\* C15: for every token encode returns exactly k (value, index) pairs with
\* pairwise distinct indices among the num_latents latents, each value the
\* pre-activation encoder(x - b_dec) at its index, negative or not, and no
\* unselected pre-activation exceeds a selected one.
C15_TopKSelection ==
    (pc = "codec" /\ codecrun.stage >= 1) =>
        \A b \in 1..Len(codecrun.x) : \A s \in 1..Len(codecrun.x[b]) :
           \A pre \in {PreActs(codecrun.codec, codecrun.x[b][s])} :
              LET idx == codecrun.enc.top_indices[b][s]
                  val == codecrun.enc.top_acts[b][s]
                  k == codecrun.codec.cfg.k
                  L == codecrun.codec.cfg.num_latents
              IN /\ Len(idx) = k /\ Len(val) = k
                 /\ \A i \in 1..k :
                       /\ idx[i] \in 1..L
                       /\ val[i] = pre[idx[i]]
                       /\ \A j \in 1..k : idx[i] = idx[j] => i = j
                 /\ \A u \in 1..L \ {idx[i] : i \in 1..k} :
                       \A i \in 1..k : pre[u] <= val[i]

\* encode has returned a negative value at a position where a latent was
\* left unselected
C15_Witness ==
    /\ pc = "codec" /\ codecrun.stage >= 1
    /\ codecrun.codec.cfg.k = 2
    /\ \E b \in 1..Len(codecrun.x) : \E s \in 1..Len(codecrun.x[b]) :
          /\ codecrun.enc.top_acts[b][s][2] < 0
          /\ codecrun.enc.top_acts[b][s][1] > 0

\* ---------------------------------------------------------- C16, C17, C18
\* the batches after prev up to last, in order
BatchesFrom(prev, last) == [j \in 1..(last - prev) |-> prev + j]

\* C16: gradients are cleared only right after an optimizer step, so each
\* optimizer step applies the loss gradients of exactly the batches
\* processed since the previous step (or since the start), each once, and
\* no batch's gradient reaches two steps.
C16_GradientWindow ==
    /\ hist.cleared \subseteq hist.steps
    /\ Len(hist.applied) = Cardinality(hist.steps)
    /\ \A i \in 1..Len(hist.applied) :
          /\ hist.applied[i].at \in hist.steps
          /\ hist.applied[i].grads =
                BatchesFrom(IF i = 1 THEN 0 ELSE hist.applied[i - 1].at,
                            hist.applied[i].at)
    /\ \A i \in 1..Len(sae.grads) :
          sae.grads[i] = Max(hist.cleared \cup {0}) + i
    /\ pc \in {"check_step", "optimizer_step"} =>
          sae.grads = BatchesFrom(Max(hist.cleared \cup {0}), NProcessed)
    /\ pc \in {"renorm", "reset_log"} => sae.grads = <<>>

\* a second optimizer step has applied the gradients of two batches, the
\* first step having applied two others
C16_Witness ==
    /\ pc = "zero_grad"
    /\ Len(hist.applied) = 2
    /\ hist.applied[1].grads = <<1, 2>>
    /\ hist.applied[2].grads = <<3, 4>>

\* what an iteration that only buffers its record leaves alone
BufferingFrame ==
    <<tokens_seen_since_last_step, tokens_seen_since_last_save, sae,
      global_inputs, global_outputs, fwd, sae_input, sae_output, loss,
      wandb, ckpts, hist, handle, exc, outcome, step, tokens>>

\* C17: an iteration that finds the buffer short of model_batch_size only
\* appends its record to the buffer: no forward pass, counters, gradients,
\* parameters and captured pair unchanged, no metric, no checkpoint.  Both
\* counters grow only when a full buffer is stacked, both by the element
\* count of the whole batch (rows times sequence length, masked positions
\* included), and otherwise change only by the resets of that iteration.
C17_BufferingIteration ==
    [][/\ (pc = "body" /\ Len(batch) < train_cfg.model_batch_size) =>
             /\ batch' = Append(batch, tokens)
             /\ pc' = "for"
             /\ UNCHANGED BufferingFrame
       /\ (tokens_seen_since_last_step' # tokens_seen_since_last_step
             \/ tokens_seen_since_last_save' # tokens_seen_since_last_save) =>
             \/ /\ pc = "body"
                /\ Len(batch) = train_cfg.model_batch_size
                /\ tokens_seen_since_last_step' =
                      tokens_seen_since_last_step + Len(batch) * SeqLen
                /\ tokens_seen_since_last_save' =
                      tokens_seen_since_last_save + Len(batch) * SeqLen
             \/ /\ pc = "reset_log"
                /\ tokens_seen_since_last_step' = 0
                /\ UNCHANGED tokens_seen_since_last_save
             \/ /\ pc = "check_save"
                /\ tokens_seen_since_last_save' = 0
                /\ UNCHANGED tokens_seen_since_last_step]_vars

\* a record has just been buffered while gradients, counters, a captured
\* pair and a checkpoint of earlier batches exist, with a mask in force
C17_Witness ==
    /\ pc = "for"
    /\ Len(batch) = 1
    /\ train_cfg.model_batch_size = 2
    /\ train_cfg.mask_first_n_tokens = 1
    /\ NProcessed >= 1
    /\ sae.grads # <<>>
    /\ tokens_seen_since_last_step = 4
    /\ tokens_seen_since_last_save = 0
    /\ global_inputs # None
    /\ ckpts # <<>>

\* C18: every checkpoint holds the parameters left by the most recent
\* optimizer step and its renormalisation (the initial ones if there was no
\* step): within a batch the step and the renormalisation come before the
\* checkpoint, and gradients not yet applied are not in it.
C18_CheckpointContent ==
    \A i \in 1..Len(ckpts) :
       /\ ckpts[i].params =
             [ver |-> Cardinality({b \in hist.steps : b <= ckpts[i].batch}),
              unit |-> TRUE]
       /\ ckpts[i].batch \in hist.steps => ckpts[i].batch \in hist.cleared

\* a checkpoint was written on a batch without optimizer step, after an
\* earlier step, while gradients were pending
C18_Witness ==
    /\ pc = "end_iter"
    /\ ckpts # <<>>
    /\ ckpts[Len(ckpts)].batch = NProcessed
    /\ NProcessed \notin hist.steps
    /\ ckpts[Len(ckpts)].params.ver >= 1
    /\ sae.grads # <<>>

\* ------------------------------------------------------------------- C19
\* what the end of the loop and the cleanup leave alone
TrainingData ==
    <<sae, ckpts, hist, batch, fwd, global_inputs, global_outputs,
      tokens_seen_since_last_step, tokens_seen_since_last_save, sae_input,
      sae_output, loss, step, tokens>>

\* C19: on a finite token source train_sae terminates; it takes the
\* records one at a time in the source's order; when the source is
\* exhausted the loop ends for the cleanup with no further forward pass,
\* optimizer step or checkpoint, so buffered records stay unprocessed and
\* pending gradients unapplied.
C19_TerminatesOnExhaustion ==
    /\ <>(pc = "done")
    /\ [][/\ step' # step =>
                /\ pc = "for"
                /\ step' = step + 1
                /\ tokens'.idx = step'
                /\ tokens'.input_ids = InputIds(step')
          /\ (pc = "for" /\ step' = step) =>
                /\ pc' = "finally"
                /\ wandb'.log = wandb.log
                /\ UNCHANGED TrainingData
          /\ pc = "finally" =>
                /\ pc' = "done"
                /\ wandb'.log = wandb.log
                /\ UNCHANGED TrainingData]_vars

\* the source ran out after at least four records with a record in the
\* buffer and gradients pending, and train_sae has returned
C19_Witness ==
    /\ pc = "done"
    /\ outcome = "returned"
    /\ step >= 3
    /\ batch # <<>>
    /\ sae.grads # <<>>
    /\ hist.steps # {}
    /\ handle.removes = 1

====
